---- MODULE Spec2Model ----
(***************************************************************************)
(* Model of crawl.py: the discovery planner (_discover_apps), the download *)
(* driver (_download) and the crawl orchestrator (crawl).                  *)
(*                                                                         *)
(* An entry (app) is represented by its package name, an element of Ids;   *)
(* one listing holds a package at most once, several listings may share it.*)
(* The catalog source (api) is the environment: the values it returns and  *)
(* the exceptions it raises are chosen nondeterministically.               *)
(***************************************************************************)
EXTENDS Integers, Sequences, FiniteSets, TLC

\* ---------------------------------------------------------------- bounds
\* the catalog holds at most MaxEntries entries, counted over all its listings
MaxEntries == 3

\* ------------------------------------------------------ program constants
BaseWait == 30
CooldownRounds == 60
CooldownUnit == 60

\* ------------------------------------------------------------ the catalog
\* package names
Ids == {"p1", "p2"}

\* what api.categories() can return
CategoryChoices == {<<>>, <<"A">>, <<"A", "B">>, <<"B", "A">>}

\* what api.subcategories(category) returns
SubcategoriesOf == [A |-> <<"a1">>, B |-> <<"b1">>]

Outcomes == {"Success", "Wait", "Retry", "RequestError"}

PassKinds == {"listing", "busy", "cooldown", "final"}

\* ---------------------------------------------------------------- helpers
SeqsUpTo(S, n) == UNION {[1..k -> S] : k \in 0..n}

Range(s) == {s[k] : k \in 1..Len(s)}

NoDuplicates(s) == \A k, l \in 1..Len(s) : s[k] = s[l] => k = l

RECURSIVE Pow2(_)
Pow2(n) == IF n <= 0 THEN 1 ELSE 2 * Pow2(n - 1)

RECURSIVE Count(_, _)
Count(s, x) ==
    IF s = <<>> THEN 0
    ELSE (IF Head(s) = x THEN 1 ELSE 0) + Count(Tail(s), x)

RECURSIVE SumOver(_, _)
SumOver(f, S) ==
    IF S = {} THEN 0
    ELSE LET x == CHOOSE y \in S : TRUE IN f[x] + SumOver(f, S \ {x})

VARIABLES
    pc,              \* control point of the run
    categories,      \* _discover_apps: categories
    catIdx,          \* _discover_apps: position of the loop over categories
    subcategories,   \* _discover_apps: subcategories
    subIdx,          \* _discover_apps: position of the loop over subcategories
    app_list,        \* _discover_apps: the listing being grown
    app_lists,       \* _discover_apps / crawl: the discovered listings
    found,           \* history: the subcategories whose discover_apps result was not empty
    initial,         \* history: the discover_apps result of the listing being grown
    pages,           \* history: the pages more() added to the listing being grown
    moreCalls,       \* history: number of more() calls on the listing being grown
    exhausted,       \* history: more() has raised Maximum on the listing being grown
    mIdx,            \* crawl_meta_data: position of the loop over app_lists
    aIdx,            \* crawl_meta_data: position of the loop over the listing
    written,         \* crawl_meta_data: the entries written by write_to_file, in order
    retry,           \* crawl: run-wide retry backlog
    busy,            \* crawl: run-wide busy backlog
    downloaded,      \* crawl: downloaded set
    listIdx,         \* crawl: position of the loop over app_lists
    local_retry,     \* crawl: retry list captured from the last backlog pass
    local_busy,      \* crawl: busy list captured from the busy-backlog pass
    total_wait,      \* crawl: cooldown rounds slept so far
    pass,            \* which call of _download is active
    apps,            \* _download: the input sequence
    retry_flag,      \* _download: the parameter retry
    i,               \* _download: position of the loop over apps
    already_waited,  \* _download
    wait,            \* _download
    retry_list,      \* _download
    busy_list,       \* _download
    local_success,   \* _download
    sleep,           \* duration of the time.sleep performed by the last step, 0 if none
    nsleeps,         \* history: number of time.sleep calls so far
    attempts,        \* history: number of api.download calls per identifier and pass
    waits,           \* history: number of Wait outcomes per identifier and pass
    succ,            \* history: number of successful api.download calls per identifier
    first,           \* history: class of the first outcome of api.download per identifier
    lastOut,         \* history: class of the last outcome of api.download per identifier
    tracing,         \* what this run records in log: "off", "run" or "call"
    log,             \* history: the loop iterations of _download so far, in order
    queued,          \* history: identifiers appended to a retry_list before the final sweep
    passes,          \* history: the calls of _download made so far, in order
    kbusy            \* history: Wait outcomes in this call since the last Success or Retry

growVars == <<initial, pages, moreCalls, exhausted>>
discVars == <<categories, catIdx, subcategories, subIdx, app_list, app_lists, found, growVars>>
metaVars == <<mIdx, aIdx, written>>
crawlVars == <<retry, busy, downloaded, listIdx, local_retry, local_busy, total_wait>>
dlVars == <<pass, apps, retry_flag, i, already_waited, wait, retry_list, busy_list, local_success>>
countVars == <<attempts, waits, succ, first, lastOut, queued, tracing>>
histVars == <<countVars, log>>
vars == <<pc, discVars, crawlVars, metaVars, dlVars, sleep, nsleeps, histVars, passes, kbusy>>

NoList == [subcategory |-> "none", apps |-> <<>>]

\* app_count: the number of entries of the listings discovered so far
RECURSIVE AppCount(_)
AppCount(ls) == IF ls = <<>> THEN 0 ELSE Len(Head(ls).apps) + AppCount(Tail(ls))

Start(t) ==
    /\ pc = "categories"
    /\ categories = <<>>
    /\ catIdx = 1
    /\ subcategories = <<>>
    /\ subIdx = 1
    /\ app_list = NoList
    /\ app_lists = <<>>
    /\ found = <<>>
    /\ initial = <<>>
    /\ pages = <<>>
    /\ moreCalls = 0
    /\ exhausted = FALSE
    /\ mIdx = 1
    /\ aIdx = 1
    /\ written = <<>>
    /\ retry = <<>>
    /\ busy = <<>>
    /\ downloaded = {}
    /\ listIdx = 1
    /\ local_retry = <<>>
    /\ local_busy = <<>>
    /\ total_wait = 0
    /\ pass = "none"
    /\ apps = <<>>
    /\ retry_flag = TRUE
    /\ i = 1
    /\ already_waited = FALSE
    /\ wait = BaseWait
    /\ retry_list = <<>>
    /\ busy_list = <<>>
    /\ local_success = {}
    /\ sleep = 0
    /\ nsleeps = 0
    /\ attempts = [id \in Ids |-> [p \in PassKinds |-> 0]]
    /\ waits = [id \in Ids |-> [p \in PassKinds |-> 0]]
    /\ succ = [id \in Ids |-> 0]
    /\ first = [id \in Ids |-> "none"]
    /\ lastOut = [id \in Ids |-> "none"]
    /\ queued = {}
    /\ passes = <<>>
    /\ kbusy = 0
    /\ tracing = t
    /\ log = <<>>

Init == Start("off")

\* the step calls time.sleep(d)
Sleep(d) ==
    /\ sleep' = d
    /\ nsleeps' = IF d > 0 THEN nsleeps + 1 ELSE nsleeps

\* the step does not call time.sleep
NoSleep == Sleep(0)

\* the same program, with every loop iteration of _download recorded in log
TraceInit == Start("run")

\* the same program, with the loop iterations of the current call of _download
\* recorded in log
CallInit == Start("call")

\* ------------------------------------------------------------- discovery

\* categories = api.categories()
Categories ==
    /\ pc = "categories"
    /\ categories' \in CategoryChoices
    /\ pc' = "subcategories"
    /\ catIdx' = 1
    /\ subcategories' = <<>>
    /\ NoSleep
    /\ UNCHANGED <<subIdx, app_list, app_lists, found, growVars, crawlVars, dlVars, histVars,
                   passes, kbusy>>
    /\ UNCHANGED metaVars

\* for category in categories: subcategories.extend(api.subcategories(category))
Subcategories ==
    /\ pc = "subcategories"
    /\ catIdx <= Len(categories)
    /\ subcategories' = subcategories \o SubcategoriesOf[categories[catIdx]]
    /\ catIdx' = catIdx + 1
    /\ NoSleep
    /\ UNCHANGED <<pc, categories, subIdx, app_list, app_lists, found, growVars, crawlVars,
                   dlVars, histVars, passes, kbusy>>
    /\ UNCHANGED metaVars

\* the loop over categories is over; app_lists = []
SubcategoriesDone ==
    /\ pc = "subcategories"
    /\ catIdx > Len(categories)
    /\ pc' = "discover"
    /\ subIdx' = 1
    /\ app_lists' = <<>>
    /\ NoSleep
    /\ UNCHANGED <<categories, catIdx, subcategories, app_list, found, growVars, crawlVars,
                   dlVars, histVars, passes, kbusy>>
    /\ UNCHANGED metaVars

ALL_Off == FALSE

\* ALL = True: whether a listing is grown page by page until Maximum
ALL == TRUE

IsEmpty_Never(page) == FALSE

\* if not app_list
IsEmpty(page) == page = <<>>

\* app_list = api.discover_apps(subcategory); if not app_list: continue;
\* while ALL: ... (without ALL the listing is appended as it is)
DiscoverApps ==
    /\ pc = "discover"
    /\ subIdx <= Len(subcategories)
    /\ \E page \in SeqsUpTo(Ids, MaxEntries) :
          /\ NoDuplicates(page)
          /\ AppCount(app_lists) + Len(page) <= MaxEntries
          /\ found' = IF page = <<>> THEN found ELSE Append(found, subcategories[subIdx])
          /\ IF IsEmpty(page)
             THEN /\ subIdx' = subIdx + 1
                  /\ UNCHANGED <<pc, app_list, app_lists, growVars>>
             ELSE /\ app_list' = [subcategory |-> subcategories[subIdx], apps |-> page]
                  /\ initial' = page
                  /\ pages' = <<>>
                  /\ moreCalls' = 0
                  /\ exhausted' = FALSE
                  /\ IF ALL
                     THEN pc' = "more" /\ UNCHANGED <<subIdx, app_lists>>
                     ELSE /\ app_lists' = Append(app_lists, app_list')
                          /\ subIdx' = subIdx + 1
                          /\ UNCHANGED pc
    /\ NoSleep
    /\ UNCHANGED <<categories, catIdx, subcategories, crawlVars, dlVars, histVars, passes, kbusy>>
    /\ UNCHANGED metaVars

\* app_list.more() returns: the listing has grown by one page
MorePage ==
    /\ pc = "more"
    /\ \E page \in SeqsUpTo(Ids, MaxEntries) :
          /\ page # <<>>
          /\ NoDuplicates(app_list.apps \o page)
          /\ AppCount(app_lists) + Len(app_list.apps) + Len(page) <= MaxEntries
          /\ app_list' = [app_list EXCEPT !.apps = @ \o page]
          /\ pages' = Append(pages, page)
    /\ moreCalls' = moreCalls + 1
    /\ NoSleep
    /\ UNCHANGED <<pc, categories, catIdx, subcategories, subIdx, app_lists, found, initial,
                   exhausted, crawlVars, dlVars, histVars, passes, kbusy>>
    /\ UNCHANGED metaVars

\* app_list.more() raises Maximum: break; app_lists.append(app_list)
MoreMaximum ==
    /\ pc = "more"
    /\ app_lists' = Append(app_lists, app_list)
    /\ subIdx' = subIdx + 1
    /\ pc' = "discover"
    /\ moreCalls' = moreCalls + 1
    /\ exhausted' = TRUE
    /\ NoSleep
    /\ UNCHANGED <<categories, catIdx, subcategories, app_list, found, initial, pages,
                   crawlVars, dlVars, histVars, passes, kbusy>>
    /\ UNCHANGED metaVars

\* app_list.more() raises an exception other than Maximum: no handler in
\* _discover_apps, crawl or the main block, so the run ends there
MoreError ==
    /\ pc = "more"
    /\ pc' = "aborted"
    /\ NoSleep
    /\ UNCHANGED <<discVars, crawlVars, dlVars, histVars, passes, kbusy>>
    /\ UNCHANGED metaVars

\* return app_lists: the locals of _discover_apps go out of scope
DiscoverReturns ==
    /\ pc = "discover"
    /\ subIdx > Len(subcategories)
    /\ categories' = <<>>
    /\ catIdx' = 1
    /\ subcategories' = <<>>
    /\ subIdx' = 1
    /\ app_list' = NoList
    /\ found' = <<>>
    /\ initial' = <<>>
    /\ pages' = <<>>
    /\ moreCalls' = 0
    /\ exhausted' = FALSE
    /\ UNCHANGED app_lists

\* the loop over subcategories is over: app_lists = _discover_apps(api);
\* crawl: retry = [], busy = [], downloaded = set()
DiscoverDone ==
    /\ DiscoverReturns
    /\ pc' = "crawl"
    /\ retry' = <<>>
    /\ busy' = <<>>
    /\ downloaded' = {}
    /\ listIdx' = 1
    /\ NoSleep
    /\ UNCHANGED <<local_retry, local_busy, total_wait, dlVars, histVars, passes, kbusy>>
    /\ UNCHANGED metaVars

\* ------------------------------------------------------- download driver

Skipped_LocalOnly(name, down, local) == name \in local

\* if name in downloaded or name in local_success: continue
Skipped(name, down, local) == name \in down \/ name \in local

NextWait_AlwaysDoubled(waited, w) == w * 2

\* if already_waited: wait = wait * 2
NextWait(waited, w) == IF waited THEN w * 2 ELSE w

RetryQueued_Always(flag) == TRUE

\* except Retry: if retry: retry_list.append(app)
RetryQueued(flag) == flag

ListAppend_Front(l, app) == <<app>> \o l

\* busy_list.append(app), retry_list.append(app)
ListAppend(l, app) == Append(l, app)

BusySleep_None(w) == 0

\* time.sleep(wait): the duration slept after a Wait outcome
BusySleep(w) == w

Untouched_Reset(o, waited, w) == <<FALSE, BaseWait>>

\* already_waited and wait after an iteration that was skipped or raised
\* RequestError: neither branch assigns them
Untouched(o, waited, w) == <<waited, w>>

Advance_RepeatBusy(k, o) == IF o = "Wait" THEN k ELSE k + 1

\* for app in apps: whatever the outcome o of the iteration, the next one
\* takes the next entry
Advance(k, o) == k + 1

EnterDownload_KeepBackoff(a, r, p) ==
    /\ pc' = "download"
    /\ pass' = p
    /\ apps' = a
    /\ retry_flag' = r
    /\ i' = 1
    /\ UNCHANGED <<already_waited, wait>>
    /\ retry_list' = <<>>
    /\ busy_list' = <<>>
    /\ local_success' = {}
    /\ passes' = Append(passes, p)
    /\ kbusy' = 0
    /\ log' = IF tracing = "call" THEN <<>> ELSE log

\* the call _download(api, a, downloaded, retry=r): the locals are initialised
EnterDownload(a, r, p) ==
    /\ pc' = "download"
    /\ pass' = p
    /\ apps' = a
    /\ retry_flag' = r
    /\ i' = 1
    /\ already_waited' = FALSE
    /\ wait' = BaseWait
    /\ retry_list' = <<>>
    /\ busy_list' = <<>>
    /\ local_success' = {}
    /\ passes' = Append(passes, p)
    /\ kbusy' = 0
    /\ log' = IF tracing = "call" THEN <<>> ELSE log

\* Retry and RequestError are both failures that are not Wait
Class(o) == IF o \in {"Retry", "RequestError"} THEN "Failed" ELSE o

\* history of one loop iteration of _download over the entry name
Logged(name, o) ==
    log' = IF tracing # "off"
           THEN Append(log, [call |-> Len(passes), pass |-> pass, name |-> name, out |-> o])
           ELSE log

\* history of one call api.download(app) with outcome o
Record(name, o) ==
    /\ attempts' = [attempts EXCEPT ![name][pass] = @ + 1]
    /\ waits' = [waits EXCEPT ![name][pass] = IF o = "Wait" THEN @ + 1 ELSE @]
    /\ succ' = [succ EXCEPT ![name] = IF o = "Success" THEN @ + 1 ELSE @]
    /\ first' = [first EXCEPT ![name] = IF @ = "none" THEN Class(o) ELSE @]
    /\ lastOut' = [lastOut EXCEPT ![name] = Class(o)]
    /\ Logged(name, o)
    /\ UNCHANGED tracing

InLoop == pc = "download" /\ i <= Len(apps)

\* the entry is skipped: continue
Skip ==
    /\ InLoop
    /\ Skipped(apps[i], downloaded, local_success)
    /\ i' = Advance(i, "Skipped")
    /\ NoSleep
    /\ Logged(apps[i], "Skipped")
    /\ already_waited' = Untouched("Skipped", already_waited, wait)[1]
    /\ wait' = Untouched("Skipped", already_waited, wait)[2]
    /\ UNCHANGED <<pc, discVars, crawlVars, pass, apps, retry_flag,
                   retry_list, busy_list, local_success, attempts, waits, succ, first,
                   lastOut, queued, tracing, passes, kbusy>>
    /\ UNCHANGED metaVars

\* api.download(app) returns
DownloadSuccess ==
    /\ InLoop
    /\ ~Skipped(apps[i], downloaded, local_success)
    /\ local_success' = local_success \cup {apps[i]}
    /\ already_waited' = FALSE
    /\ wait' = BaseWait
    /\ i' = Advance(i, "Success")
    /\ NoSleep
    /\ kbusy' = 0
    /\ Record(apps[i], "Success")
    /\ UNCHANGED <<pc, discVars, crawlVars, pass, apps, retry_flag, retry_list, busy_list,
                   queued, passes>>
    /\ UNCHANGED metaVars

\* api.download(app) raises Wait
DownloadWait ==
    /\ InLoop
    /\ ~Skipped(apps[i], downloaded, local_success)
    /\ busy_list' = ListAppend(busy_list, apps[i])
    /\ wait' = NextWait(already_waited, wait)
    /\ already_waited' = TRUE
    /\ Sleep(BusySleep(wait'))
    /\ i' = Advance(i, "Wait")
    /\ kbusy' = kbusy + 1
    /\ Record(apps[i], "Wait")
    /\ UNCHANGED <<pc, discVars, crawlVars, pass, apps, retry_flag, retry_list, local_success,
                   queued, passes>>
    /\ UNCHANGED metaVars

\* api.download(app) raises Retry
DownloadRetry ==
    /\ InLoop
    /\ ~Skipped(apps[i], downloaded, local_success)
    /\ already_waited' = FALSE
    /\ wait' = BaseWait
    /\ IF RetryQueued(retry_flag)
       THEN /\ retry_list' = ListAppend(retry_list, apps[i])
            /\ queued' = IF pass = "final" THEN queued ELSE queued \cup {apps[i]}
       ELSE UNCHANGED <<retry_list, queued>>
    /\ i' = Advance(i, "Retry")
    /\ NoSleep
    /\ kbusy' = 0
    /\ Record(apps[i], "Retry")
    /\ UNCHANGED <<pc, discVars, crawlVars, pass, apps, retry_flag, busy_list, local_success,
                   passes>>
    /\ UNCHANGED metaVars

\* api.download(app) raises RequestError
DownloadRequestError ==
    /\ InLoop
    /\ ~Skipped(apps[i], downloaded, local_success)
    /\ retry_list' = ListAppend(retry_list, apps[i])
    /\ queued' = IF pass = "final" THEN queued ELSE queued \cup {apps[i]}
    /\ i' = Advance(i, "RequestError")
    /\ NoSleep
    /\ Record(apps[i], "RequestError")
    /\ already_waited' = Untouched("RequestError", already_waited, wait)[1]
    /\ wait' = Untouched("RequestError", already_waited, wait)[2]
    /\ UNCHANGED <<pc, discVars, crawlVars, pass, apps, retry_flag,
                   busy_list, local_success, passes, kbusy>>
    /\ UNCHANGED metaVars

Returns(p) == pc = "download" /\ i > Len(apps) /\ pass = p

\* ----------------------------------------------------------- orchestrator

CooldownNeeded_Always(lb) == TRUE

\* if local_busy:
CooldownNeeded(lb) == lb # <<>>

\* for app_list in app_lists: _download(api, app_list, downloaded, retry=True)
CallListing ==
    /\ pc = "crawl"
    /\ listIdx <= Len(app_lists)
    /\ EnterDownload(app_lists[listIdx].apps, TRUE, "listing")
    /\ NoSleep
    /\ UNCHANGED <<discVars, crawlVars, countVars>>
    /\ UNCHANGED metaVars

\* retry.extend(local_retry); busy.extend(local_busy); downloaded.update(local_success)
ReturnListing ==
    /\ Returns("listing")
    /\ retry' = retry \o retry_list
    /\ busy' = busy \o busy_list
    /\ downloaded' = downloaded \cup local_success
    /\ listIdx' = listIdx + 1
    /\ pc' = "crawl"
    /\ NoSleep
    /\ UNCHANGED <<discVars, local_retry, local_busy, total_wait, dlVars, histVars, passes, kbusy>>
    /\ UNCHANGED metaVars

\* _download(api, busy, downloaded, retry=True)
CallBusy ==
    /\ pc = "crawl"
    /\ listIdx > Len(app_lists)
    /\ EnterDownload(busy, TRUE, "busy")
    /\ NoSleep
    /\ UNCHANGED <<discVars, crawlVars, countVars>>
    /\ UNCHANGED metaVars

\* local_retry, local_busy, local_success = ...; downloaded.update(local_success);
\* if local_busy: total_wait = 0
ReturnBusy ==
    /\ Returns("busy")
    /\ local_retry' = retry_list
    /\ local_busy' = busy_list
    /\ downloaded' = downloaded \cup local_success
    /\ IF CooldownNeeded(busy_list)
       THEN pc' = "cooldown" /\ total_wait' = 0
       ELSE pc' = "sweep" /\ UNCHANGED total_wait
    /\ NoSleep
    /\ UNCHANGED <<discVars, retry, busy, listIdx, dlVars, histVars, passes, kbusy>>
    /\ UNCHANGED metaVars

\* for i in range(60): time.sleep(60); total_wait += 1
CooldownSleep ==
    /\ pc = "cooldown"
    /\ total_wait < CooldownRounds
    /\ total_wait' = total_wait + 1
    /\ Sleep(CooldownUnit)
    /\ UNCHANGED <<pc, discVars, retry, busy, downloaded, listIdx, local_retry, local_busy,
                   dlVars, histVars, passes, kbusy>>
    /\ UNCHANGED metaVars

\* _download(api, local_busy, downloaded, retry=True)
CallCooldown ==
    /\ pc = "cooldown"
    /\ total_wait >= CooldownRounds
    /\ EnterDownload(local_busy, TRUE, "cooldown")
    /\ NoSleep
    /\ UNCHANGED <<discVars, crawlVars, countVars>>
    /\ UNCHANGED metaVars

\* local_retry, local_busy_new, local_success = ...
\* (local_success is not merged into downloaded here)
ReturnCooldown ==
    /\ Returns("cooldown")
    /\ local_retry' = retry_list
    /\ pc' = "sweep"
    /\ NoSleep
    /\ UNCHANGED <<discVars, retry, busy, downloaded, listIdx, local_busy, total_wait,
                   dlVars, histVars, passes, kbusy>>
    /\ UNCHANGED metaVars

\* retry.extend(local_retry); _download(api, retry, downloaded, retry=False)
CallFinal ==
    /\ pc = "sweep"
    /\ retry' = retry \o local_retry
    /\ EnterDownload(retry', FALSE, "final")
    /\ NoSleep
    /\ UNCHANGED <<discVars, busy, downloaded, listIdx, local_retry, local_busy, total_wait,
                   countVars>>
    /\ UNCHANGED metaVars

\* the final sweep returns; its results are discarded and crawl returns
ReturnFinal ==
    /\ Returns("final")
    /\ pc' = "done"
    /\ NoSleep
    /\ UNCHANGED <<discVars, crawlVars, dlVars, histVars, passes, kbusy>>
    /\ UNCHANGED metaVars

\* ------------------------------------------------- metadata-only crawl

MetaCategory_Missing(l) == "none"

\* sub_category = app_list.subcategory.proto
MetaCategory(l) == l.subcategory

\* crawl_meta_data: app_lists = _discover_apps(api)
MetaStart ==
    /\ DiscoverReturns
    /\ pc' = "meta"
    /\ mIdx' = 1
    /\ aIdx' = 1
    /\ written' = <<>>
    /\ NoSleep
    /\ UNCHANGED <<crawlVars, dlVars, histVars, passes, kbusy>>

\* for app in app_list: app.proto.category.CopyFrom(sub_category); app.write_to_file()
MetaWrite ==
    /\ pc = "meta"
    /\ mIdx <= Len(app_lists)
    /\ aIdx <= Len(app_lists[mIdx].apps)
    /\ written' = Append(written, [name |-> app_lists[mIdx].apps[aIdx],
                                    category |-> MetaCategory(app_lists[mIdx])])
    /\ aIdx' = aIdx + 1
    /\ NoSleep
    /\ UNCHANGED <<pc, discVars, mIdx, crawlVars, dlVars, histVars, passes, kbusy>>

\* the loop over the listing is over: LOGGER.info(sub_category), next app_list
MetaNextList ==
    /\ pc = "meta"
    /\ mIdx <= Len(app_lists)
    /\ aIdx > Len(app_lists[mIdx].apps)
    /\ mIdx' = mIdx + 1
    /\ aIdx' = 1
    /\ NoSleep
    /\ UNCHANGED <<pc, discVars, written, crawlVars, dlVars, histVars, passes, kbusy>>

\* the loop over app_lists is over: crawl_meta_data returns
MetaDone ==
    /\ pc = "meta"
    /\ mIdx > Len(app_lists)
    /\ pc' = "done"
    /\ NoSleep
    /\ UNCHANGED <<discVars, metaVars, crawlVars, dlVars, histVars, passes, kbusy>>

Next ==
    \/ Categories
    \/ Subcategories
    \/ SubcategoriesDone
    \/ DiscoverApps
    \/ MorePage
    \/ MoreMaximum
    \/ MoreError
    \/ DiscoverDone
    \/ CallListing
    \/ Skip
    \/ DownloadSuccess
    \/ DownloadWait
    \/ DownloadRetry
    \/ DownloadRequestError
    \/ ReturnListing
    \/ CallBusy
    \/ ReturnBusy
    \/ CooldownSleep
    \/ CallCooldown
    \/ ReturnCooldown
    \/ CallFinal
    \/ ReturnFinal

Spec == Init /\ [][Next]_vars

\* the interpreter always takes the next step of the single thread of control
FairSpec == Spec /\ WF_vars(Next)

TraceSpec == TraceInit /\ [][Next]_vars

CallSpec == CallInit /\ [][Next]_vars

\* crawl_meta_data(api): the same discovery, then the metadata of every entry
MetaNext ==
    \/ Categories
    \/ Subcategories
    \/ SubcategoriesDone
    \/ DiscoverApps
    \/ MorePage
    \/ MoreMaximum
    \/ MoreError
    \/ MetaStart
    \/ MetaWrite
    \/ MetaNextList
    \/ MetaDone

MetaSpec == Init /\ [][MetaNext]_vars

TypeOK ==
    /\ pc \in {"categories", "subcategories", "discover", "more", "crawl", "download",
               "cooldown", "sweep", "meta", "done", "aborted"}
    /\ downloaded \subseteq Ids
    /\ local_success \subseteq Ids
    /\ total_wait \in 0..CooldownRounds

\* ------------------------------------------------- measures of a run

\* number of api.download calls for an identifier so far
TotalAttempts(id) ==
    attempts[id]["listing"] + attempts[id]["busy"] + attempts[id]["cooldown"]
        + attempts[id]["final"]

\* number of occurrences of an identifier in the discovered listings
RECURSIVE Occurrences(_, _)
Occurrences(ls, id) ==
    IF ls = <<>> THEN 0 ELSE Count(Head(ls).apps, id) + Occurrences(Tail(ls), id)

\* number of discovered listings that contain an identifier
RECURSIVE ListingsWith(_, _)
ListingsWith(ls, id) ==
    IF ls = <<>> THEN 0
    ELSE (IF id \in Range(Head(ls).apps) THEN 1 ELSE 0) + ListingsWith(Tail(ls), id)

\* the discovered unique identifiers
Discovered == {id \in Ids : Occurrences(app_lists, id) > 0}

\* the pass of the last api.download call for an identifier
LastPass(id) ==
    IF attempts[id]["final"] > 0 THEN "final"
    ELSE IF attempts[id]["cooldown"] > 0 THEN "cooldown"
    ELSE IF attempts[id]["busy"] > 0 THEN "busy"
    ELSE IF attempts[id]["listing"] > 0 THEN "listing"
    ELSE "none"

\* ------------------------------------------------------------------ C1
\* C1: each identifier has at most one successful download: the downloaded
\* set only grows, and once an identifier has succeeded api.download is never
\* called for it again.
C1_DownloadedOnce ==
    [][/\ downloaded \subseteq downloaded'
       /\ \A id \in Ids : attempts'[id] # attempts[id] => succ[id] = 0]_vars

\* ------------------------------------------------------------------ C2
\* C2 (as stated): api.download is called for an entry at most once during a
\* whole run, whatever the outcomes.
C2_AtMostOnce == \A id \in Ids : TotalAttempts(id) <= 1

\* C2 (amended): an entry that occurs N times in the discovered listings has
\* api.download called at most N times in each kind of pass, hence at most 4N
\* times in a run, and exactly once when its first call succeeds.
C2_Bounded ==
    \A id \in Ids :
        /\ \A p \in PassKinds : attempts[id][p] <= Occurrences(app_lists, id)
        /\ TotalAttempts(id) <= 4 * Occurrences(app_lists, id)
        /\ first[id] = "Success" => TotalAttempts(id) = 1

\* an entry that is a member of two listings was downloaded by its first call
\* and the run is over
C2_Witness ==
    /\ pc = "done"
    /\ \E id \in Ids :
          /\ ListingsWith(app_lists, id) >= 2
          /\ first[id] = "Success"
          /\ TotalAttempts(id) = 1

\* ------------------------------------------------------------------ C3
\* C3: once the final sweep has finished, every discovered identifier has
\* either succeeded or been dropped terminally: its last api.download call
\* failed in the final sweep, or raised Wait in the cooldown pass.
C3_NoneLost ==
    pc = "done" =>
        \A id \in Discovered :
            \/ succ[id] >= 1
            \/ LastPass(id) = "final" /\ lastOut[id] # "Success"
            \/ LastPass(id) = "cooldown" /\ lastOut[id] = "Wait"

\* ------------------------------------------------------------------ C4
\* C4: every entry put into a retry_list by a per-listing pass, the
\* busy-backlog pass or the cooldown pass is part of the input of the final
\* sweep, and is attempted there unless it has been downloaded by then.
C4_RetrySwept ==
    /\ (pc = "download" /\ pass = "final") =>
          \A id \in queued : succ[id] >= 1 \/ id \in Range(apps)
    /\ pc = "done" =>
          \A id \in queued : succ[id] >= 1 \/ attempts[id]["final"] >= 1

\* ------------------------------------------------------------------ C5
\* number of api.download calls for an identifier after its first Retry outcome
CallsAfterFirstRetry(id) ==
    LET retries == {k \in 1..Len(log) : log[k].name = id /\ log[k].out = "Retry"}
    IN  IF retries = {} THEN 0
        ELSE LET f == CHOOSE k \in retries : \A l \in retries : k <= l
             IN  Cardinality({k \in (f + 1)..Len(log) :
                                 log[k].name = id /\ log[k].out \in Outcomes})

\* C5: after the first Retry outcome of an identifier, api.download is called
\* for that identifier at most one further time in the run.
C5_RetriedOnce == \A id \in Ids : CallsAfterFirstRetry(id) <= 1

\* ------------------------------------------------------------------ C6
\* the kinds of the calls of _download made by a run over n listings, up to
\* the k-th call
PassShape(n) ==
    /\ Len(passes) <= n + 3
    /\ \A k \in 1..Len(passes) :
          /\ k <= n => passes[k] = "listing"
          /\ k = n + 1 => passes[k] = "busy"
          /\ k = n + 2 => passes[k] \in {"cooldown", "final"}
          /\ k = n + 3 => passes[k] = "final" /\ passes[n + 2] = "cooldown"

\* the arguments of the active call of _download
PassArguments ==
    pc = "download" =>
        /\ pass = passes[Len(passes)]
        /\ pass = "listing" => apps = app_lists[Len(passes)].apps /\ retry_flag
        /\ pass = "busy" => apps = busy /\ retry_flag
        /\ pass = "cooldown" =>
              /\ apps = local_busy /\ retry_flag
              /\ local_busy # <<>>
              /\ total_wait = CooldownRounds
        /\ pass = "final" =>
              /\ apps = retry /\ ~retry_flag
              /\ ("cooldown" \in Range(passes)) = (local_busy # <<>>)

\* C6: the run is discovery, then one pass per listing in discovery order,
\* then one busy-backlog pass, then (exactly when that pass returned a
\* non-empty busy_list) 60 sleeps of 60 and one cooldown pass, then one final
\* sweep with retry disabled, and nothing after it; api.download is called
\* only inside a pass, never during discovery or the cooldown.
C6_PassOrder ==
    /\ [](/\ pc \in {"categories", "subcategories", "discover", "more", "aborted"}
             => passes = <<>>
          /\ PassShape(Len(app_lists))
          /\ PassArguments
          /\ pc = "done" => Len(passes) >= Len(app_lists) + 2
                            /\ passes[Len(passes)] = "final")
    /\ [][/\ attempts' # attempts => pc = "download" /\ pc' = "download" /\ passes' = passes
          /\ pc = "cooldown" /\ pc' = "cooldown" =>
                sleep' = CooldownUnit /\ total_wait' = total_wait + 1
          /\ pc = "cooldown" /\ pc' # "cooldown" =>
                total_wait = CooldownRounds /\ pc' = "download" /\ pass' = "cooldown"
          /\ pc = "done" => pc' = "done"]_vars

\* a run over two listings that went through the cooldown has finished
C6_Witness ==
    /\ pc = "done"
    /\ passes = <<"listing", "listing", "busy", "cooldown", "final">>
    /\ total_wait = CooldownRounds

\* ------------------------------------------------------------------ C7
\* C7: an entry whose api.download calls all raised Wait in the per-listing
\* passes and in the busy-backlog pass makes the run go through the cooldown
\* and is attempted exactly once after it; if that attempt raises Wait too,
\* the entry is not attempted in the final sweep and is not in the retry
\* backlog.
C7_BusyAbandoned ==
    pc = "done" =>
        \A id \in Ids :
            (/\ attempts[id]["listing"] > 0
             /\ waits[id]["listing"] = attempts[id]["listing"]
             /\ attempts[id]["busy"] > 0
             /\ waits[id]["busy"] = attempts[id]["busy"])
            => /\ "cooldown" \in Range(passes)
               /\ attempts[id]["cooldown"] = 1
               /\ waits[id]["cooldown"] = 1 =>
                     attempts[id]["final"] = 0 /\ id \notin Range(retry)

\* ------------------------------------------------------------------ C8
\* C8: an exception of more() other than Maximum ends the discovery of that
\* listing only, discovery goes on with the next subcategory; and every
\* outcome of api.download leaves the pass running on the next entry.
C8_Contained ==
    [][/\ pc = "more" /\ pc' # "more" => pc' = "discover" /\ subIdx' = subIdx + 1
       /\ InLoop => pc' = "download" /\ i' = i + 1 /\ apps' = apps]_vars

\* ------------------------------------------------------------------ C9
\* C9: every run ends (a run whose more() raises something other than
\* Maximum ends aborted, the others after the final sweep); each iteration of
\* the loop of _download moves to the next entry, a call returns only after
\* the last entry, and the run calls api.download at most four times per
\* discovered entry.
C9_Terminates ==
    /\ <>(pc = "done" \/ pc = "aborted")
    /\ [][/\ InLoop => pc' = "download" /\ i' = i + 1 /\ apps' = apps
          /\ pc = "download" /\ pc' # "download" => i = Len(apps) + 1]_vars
    /\ [](SumOver([id \in Ids |-> TotalAttempts(id)], Ids) <= 4 * AppCount(app_lists))

\* a run in which every call of api.download raised Wait has finished
C9_Witness ==
    /\ pc = "done"
    /\ \E id \in Ids :
          /\ TotalAttempts(id) >= 3
          /\ \A p \in PassKinds : waits[id][p] = attempts[id][p]

\* ----------------------------------------------------------------- C10
\* C10: in one call of _download the k-th Wait outcome since the call began
\* or since the last Success or Retry outcome sleeps 30 * 2^(k-1); wait is
\* 30 and already_waited is clear when there was none.
C10_Backoff ==
    /\ [](pc = "download" =>
             /\ wait = BaseWait * Pow2(kbusy - 1)
             /\ already_waited = (kbusy > 0))
    /\ [][/\ waits' # waits => kbusy' = kbusy + 1 /\ sleep' = BaseWait * Pow2(kbusy)
          /\ (pc = "download" /\ waits' = waits) => sleep' = 0]_vars

\* the third consecutive Wait of a call has just slept 120
C10_Witness ==
    /\ pc = "download"
    /\ kbusy = 3
    /\ sleep = 4 * BaseWait
    /\ wait = 4 * BaseWait


\* ------------------------------------------- the outcomes of one call

\* the iterations of the current call of _download, in order
CallLog == SelectSeq(log, LAMBDA e : e.call = Len(passes))

\* the entries of the current call whose iteration ended in one of outs, in order
NamesWith(outs) ==
    LET sel == SelectSeq(CallLog, LAMBDA e : e.out \in outs)
    IN  [k \in 1..Len(sel) |-> sel[k].name]

\* the failures the current call queues for a later attempt
QueuedOutcomes == IF retry_flag THEN {"Retry", "RequestError"} ELSE {"RequestError"}

C12_Classified ==
    passes # <<>> =>
        /\ Len(CallLog) = i - 1
        /\ \A k \in 1..Len(CallLog) :
              /\ CallLog[k].name = apps[k]
              /\ CallLog[k].out \in Outcomes \cup {"Skipped"}
        /\ local_success = Range(NamesWith({"Success"}))
        /\ NoDuplicates(NamesWith({"Success"}))
        /\ busy_list = NamesWith({"Wait"})
        /\ retry_list = NamesWith(QueuedOutcomes)
        /\ Cardinality(local_success) + Len(busy_list) + Len(retry_list)
              + Len(NamesWith({"Skipped"}))
              + Len(NamesWith({"Retry", "RequestError"} \ QueuedOutcomes))
              = i - 1

\* a call over three entries has returned: one succeeded, one is busy, one was
\* skipped as a duplicate
C12_Witness ==
    /\ pc = "download"
    /\ Len(apps) = 3
    /\ i = 4
    /\ Cardinality(local_success) = 1
    /\ Len(busy_list) = 1
    /\ Len(NamesWith({"Skipped"})) = 1

\* ----------------------------------------------------------------- C13
\* the entries of a sequence of pages
RECURSIVE Flatten(_)
Flatten(ps) == IF ps = <<>> THEN <<>> ELSE Head(ps) \o Flatten(Tail(ps))

\* C13: a listing is appended to app_lists exactly when more() has raised
\* Maximum on it, after K successful calls and K + 1 calls in all; it then
\* holds the initial page followed by those K pages; more() is not called on
\* it afterwards and the appended listing never changes.
C13_Exhausted ==
    [][/\ app_lists' # app_lists =>
             /\ exhausted'
             /\ moreCalls' = Len(pages') + 1
             /\ app_lists' = Append(app_lists,
                                    [subcategory |-> subcategories[subIdx],
                                     apps |-> initial' \o Flatten(pages')])
       /\ exhausted' /\ ~exhausted => app_lists' # app_lists
       /\ exhausted /\ moreCalls' # moreCalls => moreCalls' = 0 /\ ~exhausted'
       /\ \A k \in 1..Len(app_lists) :
             Len(app_lists') >= k /\ app_lists'[k] = app_lists[k]]_vars

\* a listing was appended after one successful more() and one Maximum
C13_Witness ==
    /\ exhausted
    /\ moreCalls = 2
    /\ Len(pages) = 1
    /\ Len(app_lists) = 1
    /\ Len(app_lists[1].apps) = Len(initial) + Len(pages[1])

\* ----------------------------------------------------------------- C14
\* every api.download call so far has succeeded
AllSucceeded == \A id \in Ids : TotalAttempts(id) = succ[id]

\* C14: when every download succeeds, each identifier is downloaded exactly
\* once even when it is a member of several listings, the retry and busy
\* backlogs stay empty, there is no sleep and no cooldown, the busy-backlog
\* pass and the final sweep call api.download for nothing, and at the end
\* the downloaded set is the set of discovered identifiers.
C14_AllSucceed ==
    AllSucceeded =>
        /\ \A id \in Ids :
              /\ TotalAttempts(id) <= 1
              /\ attempts[id]["busy"] = 0
              /\ attempts[id]["cooldown"] = 0
              /\ attempts[id]["final"] = 0
        /\ pc \in {"crawl", "download", "cooldown", "sweep", "done"} =>
              /\ retry = <<>>
              /\ busy = <<>>
              /\ retry_list = <<>>
              /\ busy_list = <<>>
        /\ nsleeps = 0
        /\ sleep = 0
        /\ pc # "cooldown"
        /\ "cooldown" \notin Range(passes)
        /\ pc = "done" =>
              /\ downloaded = Discovered
              /\ \A id \in Discovered : TotalAttempts(id) = 1
              /\ passes[Len(passes) - 1] = "busy"

\* a run over [p1, p2] and [p2] in which every download succeeded has finished
C14_Witness ==
    /\ pc = "done"
    /\ AllSucceeded
    /\ Len(app_lists) = 2
    /\ ListingsWith(app_lists, "p2") = 2
    /\ downloaded = {"p1", "p2"}

\* ----------------------------------------------------------------- C15
\* what crawl_meta_data has to write for the listings ls, in order
RECURSIVE MetaExpected(_)
MetaExpected(ls) ==
    IF ls = <<>> THEN <<>>
    ELSE [k \in 1..Len(Head(ls).apps) |->
             [name |-> Head(ls).apps[k], category |-> Head(ls).subcategory]]
         \o MetaExpected(Tail(ls))

\* C15: crawl_meta_data never calls api.download and never sleeps, backs off
\* or queues a retry; after discovery it writes every entry occurrence of
\* every listing exactly once, in listing order, with the subcategory of its
\* listing attached.
C15_MetaOnly ==
    /\ \A id \in Ids : TotalAttempts(id) = 0
    /\ nsleeps = 0
    /\ sleep = 0
    /\ passes = <<>>
    /\ wait = BaseWait /\ ~already_waited
    /\ retry = <<>> /\ busy = <<>> /\ retry_list = <<>> /\ busy_list = <<>>
    /\ pc \notin {"meta", "done"} => written = <<>>
    /\ pc \in {"meta", "done"} =>
          /\ Len(written) <= Len(MetaExpected(app_lists))
          /\ written = SubSeq(MetaExpected(app_lists), 1, Len(written))
    /\ pc = "done" => written = MetaExpected(app_lists)

\* the metadata of the three entries of two listings has been written
C15_Witness ==
    /\ pc = "done"
    /\ Len(app_lists) = 2
    /\ Len(written) = 3
    /\ written[1].category # written[3].category

\* ----------------------------------------------------------------- C16
\* C16: no entry is twice in the busy_list or the retry_list of one call of
\* _download, and the input of the busy-backlog pass, of the cooldown pass
\* and of the final sweep holds no identifier twice.
C16_NoDuplicates ==
    /\ NoDuplicates(busy_list)
    /\ NoDuplicates(retry_list)
    /\ pc = "download" /\ pass \in {"busy", "cooldown", "final"} => NoDuplicates(apps)

\* ----------------------------------------------------------------- C17
\* C17: every call of _download starts with wait = 30 and already_waited
\* clear, whatever the previous call left; so the first Wait outcome of a
\* call, in particular of the busy-backlog pass for an entry that was busy
\* in its listing, sleeps 30; an entry that succeeds in the busy-backlog pass
\* is in the downloaded set and is not attempted again.
C17_BackoffLocal ==
    /\ [][/\ passes' # passes => wait' = BaseWait /\ ~already_waited'
          /\ (pc = "download" /\ i = 1 /\ i' = 2 /\ sleep' > 0) => sleep' = BaseWait
          /\ \A id \in Ids :
                (/\ pass = "busy"
                 /\ waits[id]["busy"] = 0
                 /\ waits'[id]["busy"] = 1
                 /\ \A other \in Ids : waits[other]["busy"] = 0)
                    => sleep' = BaseWait]_vars
    /\ [](\A id \in Ids :
             (/\ waits[id]["listing"] >= 1
              /\ LastPass(id) = "busy"
              /\ lastOut[id] = "Success")
                => /\ id \in local_success \cup downloaded
                   /\ pc \in {"cooldown", "sweep", "done"} => id \in downloaded)

\* the listing pass ended with a doubled wait (both entries were busy), and
\* the first entry of the busy-backlog pass was busy again and slept 30
C17_Witness ==
    /\ pc = "download"
    /\ pass = "busy"
    /\ i = 2
    /\ Len(app_lists) = 1
    /\ waits["p1"]["listing"] = 1
    /\ waits["p2"]["listing"] = 1
    /\ waits[apps[1]]["busy"] = 1
    /\ sleep = BaseWait
    /\ wait = BaseWait

\* ----------------------------------------------------------------- C18
\* the subcategories of the categories cs, category by category
RECURSIVE Enumeration(_)
Enumeration(cs) ==
    IF cs = <<>> THEN <<>> ELSE SubcategoriesOf[Head(cs)] \o Enumeration(Tail(cs))

\* C18: discovery returns exactly the listings of the subcategories whose
\* discover_apps result was not empty, in the order of the subcategory
\* enumeration (categories in order, the subcategories of each in order); an
\* empty result is skipped without a more() call; discover_apps is called
\* for the next subcategory only when every listing found so far has been
\* exhausted and appended; api.download is called only after discovery.
C18_Discovery ==
    /\ [](pc \in {"discover", "more"} =>
             /\ subcategories = Enumeration(categories)
             /\ found = SelectSeq(SubSeq(subcategories, 1, Len(subcategories)),
                                  LAMBDA sc : sc \in Range(found))
             /\ Range(found) \subseteq
                   {subcategories[k] : k \in 1..(IF subIdx <= Len(subcategories)
                                                 THEN subIdx ELSE Len(subcategories))}
             /\ pc = "more" => initial # <<>> /\ found[Len(found)] = subcategories[subIdx])
    /\ [][/\ (pc = "discover" /\ pc' \in {"crawl", "meta"}) =>
                /\ app_lists' = app_lists
                /\ [k \in 1..Len(app_lists) |-> app_lists[k].subcategory] = found
                /\ \A k \in 1..Len(app_lists) : app_lists[k].apps # <<>>
          /\ (pc = "discover" /\ pc' = "discover" /\ subIdx' = subIdx + 1
                 /\ found' = found) =>
                moreCalls' = moreCalls /\ app_lists' = app_lists
          /\ (pc = "discover" /\ pc' = "more") =>
                found' = Append(found, subcategories[subIdx]) /\ initial' # <<>>
          /\ (pc = "discover" /\ (found' # found \/ subIdx' # subIdx)) =>
                Len(app_lists) = Len(found)
          /\ (pc = "more" /\ pc' = "discover") => exhausted' /\ subIdx' = subIdx + 1
          /\ attempts' # attempts =>
                /\ pc = "download"
                /\ app_lists' = app_lists
                /\ found = <<>>]_vars

\* of the subcategories a1 and b1 the first gave an empty result and the
\* second a listing, which is exhausted
C18_Witness ==
    /\ pc = "discover"
    /\ subcategories = <<"a1", "b1">>
    /\ subIdx = 3
    /\ found = <<"b1">>
    /\ Len(app_lists) = 1
    /\ app_lists[1].subcategory = "b1"
    /\ exhausted

\* ----------------------------------------------------------------- C19
\* number of Wait outcomes so far
TotalWaits ==
    SumOver([id \in Ids |-> waits[id]["listing"] + waits[id]["busy"]
                               + waits[id]["cooldown"] + waits[id]["final"]], Ids)

\* C19: a step sleeps exactly when it is a Wait outcome (one sleep, in the
\* same iteration, before the next entry and also after the last entry of the
\* input) or one of the cooldown sleeps; Success, Retry, RequestError and a
\* skip do not sleep; the cooldown sleeps are 60 sleeps of 60 between the
\* busy-backlog pass and the cooldown pass.
C19_SleepPoints ==
    /\ [](nsleeps = TotalWaits + total_wait)
    /\ [][/\ nsleeps' \in {nsleeps, nsleeps + 1}
          /\ (nsleeps' = nsleeps + 1) = (sleep' > 0)
          /\ (nsleeps' = nsleeps + 1) =
                (TotalWaits' = TotalWaits + 1 \/ total_wait' = total_wait + 1)
          /\ TotalWaits' = TotalWaits + 1 =>
                /\ InLoop
                /\ i' = i + 1
                /\ busy_list' = Append(busy_list, apps[i])
                /\ sleep' = wait'
          /\ (InLoop /\ i' = i + 1 /\ TotalWaits' = TotalWaits) => sleep' = 0
          /\ total_wait' = total_wait + 1 =>
                /\ sleep' = CooldownUnit
                /\ pc = "cooldown"
                /\ passes[Len(passes)] = "busy"
          /\ (passes' # passes /\ pass' = "cooldown") => total_wait = CooldownRounds
          /\ (passes' # passes /\ pass' # "cooldown") => total_wait = 0
                 \/ pass' = "final"]_vars

\* the last entry of the input was busy: the call sleeps before it returns
C19_Witness ==
    /\ pc = "download"
    /\ pass = "listing"
    /\ Len(apps) = 2
    /\ i = 3
    /\ sleep = BaseWait
    /\ nsleeps = 1
    /\ busy_list = <<apps[2]>>

\* ----------------------------------------------------------------- C20
\* number of Wait outcomes since the last Success or Retry outcome of the call
RECURSIVE TrailingBusy(_)
TrailingBusy(l) ==
    IF l = <<>> THEN 0
    ELSE LET e == l[Len(l)]
             rest == SubSeq(l, 1, Len(l) - 1)
         IN  IF e.out \in {"Success", "Retry"} THEN 0
             ELSE (IF e.out = "Wait" THEN 1 ELSE 0) + TrailingBusy(rest)

\* C20: within a call a RequestError outcome and a skipped duplicate leave
\* wait and already_waited as they are, so that a Wait outcome that follows
\* an earlier one with only RequestError outcomes and skips in between
\* doubles the wait as if they were adjacent; _download changes neither the
\* downloaded set nor its input sequence.
C20_Frame ==
    [][/\ (Len(log') = Len(log) + 1
              /\ log'[Len(log')].out \in {"RequestError", "Skipped"}) =>
             wait' = wait /\ already_waited' = already_waited
       /\ passes' # <<>> =>
             LET n == TrailingBusy(SelectSeq(log', LAMBDA e : e.call = Len(passes')))
             IN  /\ already_waited' = (n > 0)
                 /\ wait' = BaseWait * Pow2(n - 1)
       /\ (Len(log') = Len(log) + 1 /\ log'[Len(log')].out = "Wait") => sleep' = wait'
       /\ (pc = "download" /\ i' # i /\ passes' = passes) =>
             /\ downloaded' = downloaded
             /\ apps' = apps
             /\ retry' = retry
             /\ busy' = busy
             /\ local_busy' = local_busy
             /\ app_lists' = app_lists]_vars

\* Wait, RequestError, Wait in one call: the second Wait sleeps 60
C20_Witness ==
    /\ pc = "download"
    /\ i = 4
    /\ [k \in 1..Len(CallLog) |-> CallLog[k].out] = <<"Wait", "RequestError", "Wait">>
    /\ wait = 2 * BaseWait
    /\ sleep = 2 * BaseWait

====
